---- MODULE Spec2Model ----
(***************************************************************************)
(* Model of src/app.py, the Streamlit dashboard "GRS System Modernization  *)
(* Analysis".  The script runs top to bottom on every user interaction     *)
(* (one render pass); widget values persist between passes, the script's   *)
(* own names (df_comparison, num_users, ...) do not.  The ROI calculator   *)
(* calculate_costs_and_roi is modelled in Python's float arithmetic (IEEE  *)
(* 754 binary64, round to nearest, ties to even) over arbitrary-precision  *)
(* naturals, because TLC's integers are 32 bits wide.                      *)
(***************************************************************************)
EXTENDS Integers, Sequences, FiniteSets, TLC

(***************************************************************************)
(* Arbitrary-precision naturals: little-endian sequences of limbs in       *)
(* 0..LimbBase-1 with no leading zero limb; << >> is zero.                 *)
(***************************************************************************)
RECURSIVE BitLenNat(_)
BitLenNat(n) == IF n = 0 THEN 0 ELSE 1 + BitLenNat(n \div 2)

\* limbs small enough that limb * limb + carry stays below 2^31
LimbBase == 2 ^ 15

LimbBits == BitLenNat(LimbBase - 1)

DigitChar(d) == <<"0", "1", "2", "3", "4", "5", "6", "7", "8", "9">>[d + 1]

RECURSIVE BNNorm(_)
BNNorm(a) ==
    IF a = << >> THEN << >>
    ELSE IF a[Len(a)] = 0 THEN BNNorm(SubSeq(a, 1, Len(a) - 1))
    ELSE a

RECURSIVE BNFromNat(_)
BNFromNat(n) ==
    IF n = 0 THEN << >> ELSE <<n % LimbBase>> \o BNFromNat(n \div LimbBase)

RECURSIVE BNAddC(_, _, _)
BNAddC(a, b, c) ==
    IF a = << >> /\ b = << >> THEN (IF c = 0 THEN << >> ELSE <<c>>)
    ELSE LET x == IF a = << >> THEN 0 ELSE Head(a)
             y == IF b = << >> THEN 0 ELSE Head(b)
             s == x + y + c
         IN  <<s % LimbBase>>
               \o BNAddC(IF a = << >> THEN a ELSE Tail(a),
                         IF b = << >> THEN b ELSE Tail(b), s \div LimbBase)

BNAdd(a, b) == BNAddC(a, b, 0)

\* a - b for a >= b
RECURSIVE BNSubB(_, _, _)
BNSubB(a, b, w) ==
    IF a = << >> THEN << >>
    ELSE LET y == IF b = << >> THEN 0 ELSE Head(b)
             d == Head(a) - y - w
         IN  <<IF d < 0 THEN d + LimbBase ELSE d>>
               \o BNSubB(Tail(a), IF b = << >> THEN b ELSE Tail(b),
                         IF d < 0 THEN 1 ELSE 0)

BNSub(a, b) == BNNorm(BNSubB(a, b, 0))

\* -1, 0, 1 as a < b, a = b, a > b
RECURSIVE BNCmpAt(_, _, _)
BNCmpAt(a, b, i) ==
    IF i = 0 THEN 0
    ELSE IF a[i] < b[i] THEN -1
    ELSE IF a[i] > b[i] THEN 1
    ELSE BNCmpAt(a, b, i - 1)

BNCmp(a, b) ==
    IF Len(a) < Len(b) THEN -1
    ELSE IF Len(a) > Len(b) THEN 1
    ELSE BNCmpAt(a, b, Len(a))

\* a * k + c for one limb k
RECURSIVE BNMulSmall(_, _, _)
BNMulSmall(a, k, c) ==
    IF a = << >> THEN (IF c = 0 THEN << >> ELSE <<c>>)
    ELSE LET p == Head(a) * k + c
         IN  <<p % LimbBase>> \o BNMulSmall(Tail(a), k, p \div LimbBase)

RECURSIVE BNMul(_, _)
BNMul(a, b) ==
    IF a = << >> \/ b = << >> THEN << >>
    ELSE LET rest == BNMul(a, Tail(b))
         IN  BNNorm(BNAdd(BNMulSmall(a, Head(b), 0),
                          IF rest = << >> THEN rest ELSE <<0>> \o rest))

\* quotient and remainder of a by one limb d > 0
RECURSIVE BNDivRec(_, _, _, _)
BNDivRec(a, d, i, r) ==
    IF i = 0 THEN [q |-> << >>, r |-> r]
    ELSE LET cur  == r * LimbBase + a[i]
             rest == BNDivRec(a, d, i - 1, cur % d)
         IN  [q |-> rest.q \o <<cur \div d>>, r |-> rest.r]

NormQuotient(res) == [q |-> BNNorm(res.q), r |-> res.r]

BNDivSmall(a, d) == NormQuotient(BNDivRec(a, d, Len(a), 0))

RECURSIVE Zeros(_)
Zeros(n) == IF n = 0 THEN << >> ELSE <<0>> \o Zeros(n - 1)

BNShl(a, k) ==
    IF a = << >> THEN << >>
    ELSE Zeros(k \div LimbBits) \o BNMulSmall(a, 2 ^ (k % LimbBits), 0)

BNShr(a, k) ==
    LET n == k \div LimbBits
    IN  IF n >= Len(a) THEN << >>
        ELSE BNDivSmall(SubSeq(a, n + 1, Len(a)), 2 ^ (k % LimbBits)).q

BNBitLen(a) ==
    IF a = << >> THEN 0 ELSE LimbBits * (Len(a) - 1) + BitLenNat(a[Len(a)])

BNBit(a, i) ==
    LET n == i \div LimbBits
    IN  IF n >= Len(a) THEN 0 ELSE (a[n + 1] \div 2 ^ (i % LimbBits)) % 2

\* whether a mod 2^k is nonzero
BNLowNonzero(a, k) ==
    LET n == k \div LimbBits
    IN  \/ \E j \in 1..n : j <= Len(a) /\ a[j] # 0
        \/ n < Len(a) /\ a[n + 1] % 2 ^ (k % LimbBits) # 0

\* a / 2^k rounded to the nearest natural, ties to even
RoundHalfEven(a, k, q) ==
    IF BNBit(a, k - 1) = 1 /\ (BNLowNonzero(a, k - 1) \/ BNBit(q, 0) = 1)
    THEN BNAdd(q, <<1>>)
    ELSE q

BNShrRound(a, k) == IF k = 0 THEN a ELSE RoundHalfEven(a, k, BNShr(a, k))

\* decimal digits of a, most significant first (<< >> for zero)
RECURSIVE BNDigits(_)
BNDigits(a) ==
    IF a = << >> THEN << >>
    ELSE LET d == BNDivSmall(a, 10)
         IN  Append(BNDigits(d.q), d.r)

(***************************************************************************)
(* Python float: IEEE 754 binary64.  A value is (-1)^sign * man * 2^exp    *)
(* with man either zero (then sign = 0 and exp = 0; -0.0 compares equal to *)
(* 0.0 and is not told apart) or a DoubleMantBits-bit natural, so equal    *)
(* values are equal records.  Every magnitude the calculator meets lies    *)
(* between 2^-60 and 2^40, far from the subnormal and overflow ranges,     *)
(* which are therefore not modelled.                                       *)
(***************************************************************************)
DoubleMantBits == 53

FZero == [sign |-> 0, man |-> << >>, exp |-> 0]

\* the double nearest to (-1)^sign * m * 2^e, ties to even
\* q is m / 2^k rounded; rounding up may have carried into one more bit
FRenorm(sign, q, e) ==
    IF BNBitLen(q) > DoubleMantBits
    THEN [sign |-> sign, man |-> BNShr(q, 1), exp |-> e + 1]
    ELSE [sign |-> sign, man |-> q, exp |-> e]

FRoundLen(sign, m, e, len) ==
    IF m = << >> THEN FZero
    ELSE IF len <= DoubleMantBits
         THEN [sign |-> sign, man |-> BNShl(m, DoubleMantBits - len),
               exp |-> e - (DoubleMantBits - len)]
    ELSE FRenorm(sign, BNShrRound(m, len - DoubleMantBits),
                 e + (len - DoubleMantBits))

FRound(sign, m, e) == FRoundLen(sign, m, e, BNBitLen(m))

\* float(n) for a Python int n
FFromInt(n) == FRound(IF n < 0 THEN 1 ELSE 0, BNFromNat(IF n < 0 THEN -n ELSE n), 0)

FNeg(a) == IF a.man = << >> THEN a ELSE [a EXCEPT !.sign = 1 - a.sign]

FMul(a, b) ==
    IF a.man = << >> \/ b.man = << >> THEN FZero
    ELSE FRound((a.sign + b.sign) % 2, BNMul(a.man, b.man), a.exp + b.exp)

\* the signed sum of (-1)^sa * x and (-1)^sb * y, as sign and magnitude
SignedSum(sa, x, sb, y, c) ==
    IF sa = sb THEN [sign |-> sa, mag |-> BNAdd(x, y)]
    ELSE IF c = 0 THEN [sign |-> 0, mag |-> << >>]
    ELSE IF c > 0 THEN [sign |-> sa, mag |-> BNSub(x, y)]
    ELSE [sign |-> sb, mag |-> BNSub(y, x)]

FRoundSum(s, e) == FRound(s.sign, s.mag, e)

FAddAligned(a, b, x, y, e) ==
    FRoundSum(SignedSum(a.sign, x, b.sign, y, BNCmp(x, y)), e)

FAddAt(a, b, e) ==
    FAddAligned(a, b, BNShl(a.man, a.exp - e), BNShl(b.man, b.exp - e), e)

FAdd(a, b) ==
    IF a.man = << >> THEN b
    ELSE IF b.man = << >> THEN a
    ELSE FAddAt(a, b, IF a.exp < b.exp THEN a.exp ELSE b.exp)

FSub(a, b) == FAdd(a, FNeg(b))

\* -1, 0, 1 as a < b, a = b, a > b
FSign(d) == IF d.man = << >> THEN 0 ELSE IF d.sign = 1 THEN -1 ELSE 1

FCmp(a, b) == FSign(FSub(a, b))

\* Python's true division p / q of two ints, 0 < q < LimbBase: the quotient is
\* taken to DivGuardBits fraction bits and the remainder kept as a sticky bit.
DivGuardBits == LimbBits * 4 + 4

WithSticky(d) == BNAdd(BNShl(d.q, 1), IF d.r = 0 THEN << >> ELSE <<1>>)

FDivInt(p, q) ==
    FRound(IF p < 0 THEN 1 ELSE 0,
           WithSticky(BNDivSmall(BNShl(BNFromNat(IF p < 0 THEN -p ELSE p),
                                       DivGuardBits), q)),
           0 - DivGuardBits - 1)

\* a float literal num/den of the source, e.g. 0.8 as 8/10: the nearest double
FLiteral(num, den) == FDivInt(num, den)

(***************************************************************************)
(* Python's format(x, ",.2f"): x to two decimals, correctly rounded (ties  *)
(* to even on the exact binary value), with thousands separators.          *)
(***************************************************************************)
RECURSIVE GroupDigits(_, _)
GroupDigits(ds, i) ==
    IF i > Len(ds) THEN ""
    ELSE DigitChar(ds[i])
           \o (IF i < Len(ds) /\ (Len(ds) - i) % 3 = 0 THEN "," ELSE "")
           \o GroupDigits(ds, i + 1)

\* |x| * 100 rounded to a whole number of cents
Cents(x, scaled) ==
    IF x.exp >= 0 THEN BNShl(scaled, x.exp) ELSE BNShrRound(scaled, 0 - x.exp)

\* at least one digit before the point
PadCents(raw) == Zeros(IF Len(raw) < 3 THEN 3 - Len(raw) ELSE 0) \o raw

PointTwo(sign, ds) ==
    (IF sign = 1 THEN "-" ELSE "")
      \o GroupDigits(SubSeq(ds, 1, Len(ds) - 2), 1)
      \o "." \o DigitChar(ds[Len(ds) - 1]) \o DigitChar(ds[Len(ds)])

FormatComma2f(x) ==
    PointTwo(x.sign, PadCents(BNDigits(Cents(x, BNMulSmall(x.man, 100, 0)))))

\* f"${x:,.2f}"
FormatMoney(x) == "$" \o FormatComma2f(x)

(***************************************************************************)
(* The ROI calculator, src/app.py lines 387-397.                           *)
(***************************************************************************)
\* the factors of Low and High exchanged
complexity_factor_swapped ==
    [t \in {"Low", "Medium", "High"} |->
        CASE t = "Low"    -> FLiteral(13, 10)
          [] t = "Medium" -> FLiteral(10, 10)
          [] t = "High"   -> FLiteral(8, 10)]

complexity_factor ==
    [t \in {"Low", "Medium", "High"} |->
        CASE t = "Low"    -> FLiteral(8, 10)
          [] t = "Medium" -> FLiteral(10, 10)
          [] t = "High"   -> FLiteral(13, 10)]

\* the fixed part mistyped as 5000
ms_stack_cost_base5000(users, months, factor) ==
    FMul(FFromInt(users * 100 * months + 5000), factor)

\* (users * 100 * months + 50000) * factor
ms_stack_cost(users, months, factor) ==
    FMul(FFromInt(users * 100 * months + 50000), factor)

\* the per-user part subtracted instead of added
power_apps_cost_minus(users, months, factor) ==
    FMul(FFromInt(30000 - users * 40 * months), factor)

\* (users * 40 * months + 30000) * factor
power_apps_cost(users, months, factor) ==
    FMul(FFromInt(users * 40 * months + 30000), factor)

\* the cost not subtracted again: cost * (1 + roi_percentage/100)
roi_of_cost_gross(cost, roi_percentage) ==
    FMul(cost, FAdd(FFromInt(1), FDivInt(roi_percentage, 100)))

\* (cost * (1 + roi_percentage/100)) - cost
roi_of_cost(cost, roi_percentage) ==
    FSub(FMul(cost, FAdd(FFromInt(1), FDivInt(roi_percentage, 100))), cost)

\* The call's outcome: the returned 4-tuple, or the exception the dict lookup
\* complexity_factor[complexity] raises for a key it does not hold.
\* lines 394-397: the two ROI figures from the two costs, and the return
roi_and_return(ms_cost, pa_cost, roi_percentage) ==
    [raised |-> "none",
     value  |-> <<ms_cost, pa_cost, roi_of_cost(ms_cost, roi_percentage),
                  roi_of_cost(pa_cost, roi_percentage)>>]

\* lines 391-392: the two costs
costs_then_roi(users, months, factor, roi_percentage) ==
    roi_and_return(ms_stack_cost(users, months, factor),
                   power_apps_cost(users, months, factor), roi_percentage)

\* the lookup written complexity_factor.get(complexity, 1.0)
calculate_costs_and_roi_get(users, months, complexity, roi_percentage) ==
    costs_then_roi(users, months,
                   IF complexity \in DOMAIN complexity_factor
                   THEN complexity_factor[complexity] ELSE FLiteral(10, 10),
                   roi_percentage)

calculate_costs_and_roi(users, months, complexity, roi_percentage) ==
    IF complexity \notin DOMAIN complexity_factor
    THEN [raised |-> "KeyError", value |-> << >>]
    ELSE costs_then_roi(users, months, complexity_factor[complexity],
                        roi_percentage)

(***************************************************************************)
(* The dataset tables, src/app.py lines 81-130 and 305-334.  A dict is the *)
(* sequence of its (key, dtype, values) items in insertion order; the      *)
(* dtype, which pandas infers from the values, is written out because TLC  *)
(* cannot tell an integer from a string by looking at it.                  *)
(***************************************************************************)
comparison_data ==
    << <<"Factor", "object",
         <<"Development Speed", "Scalability", "Initial Cost", "Ongoing Cost",
           "Customizability", "Maintenance Effort", "Time-to-Market",
           "Security Features", "Integration Capability", "Learning Curve">> >>,
       <<"Microsoft Stack", "int64", <<7, 6, 8, 7, 9, 6, 7, 8, 9, 8>> >>,
       <<"Azure Power Apps", "int64", <<9, 9, 6, 7, 7, 8, 9, 9, 8, 6>> >> >>

timeline_data ==
    << <<"Phase", "object",
         <<"Environment Setup", "Base Implementation", "Core Features",
           "Integration", "Testing", "Deployment">> >>,
       <<"Microsoft Stack", "int64", <<30, 45, 60, 45, 30, 15>> >>,
       <<"Azure Power Apps", "int64", <<15, 30, 45, 30, 30, 15>> >>,
       <<"Risk Level", "object",
         <<"Low", "Medium", "High", "High", "Medium", "Low">> >> >>

cost_breakdown ==
    << <<"Category", "object",
         <<"Licensing", "Infrastructure", "Development", "Training",
           "Maintenance">> >>,
       <<"Microsoft Stack", "int64", <<50000, 30000, 80000, 20000, 25000>> >>,
       <<"Azure Power Apps", "int64", <<70000, 15000, 60000, 30000, 15000>> >> >>

\* The support marks of lines 318-319 are written by their meaning in the
\* legend of lines 368-370: "full" for the check mark, "partial" for the
\* warning sign.
features ==
    << <<"Feature", "object",
         <<"Built-in Security", "Compliance Tools", "Mobile Support",
           "Custom Development", "Third-party Integration",
           "Automated Testing", "Version Control", "Deployment Automation",
           "Performance Monitoring", "Disaster Recovery">> >>,
       <<"Microsoft Stack", "object",
         <<"full", "full", "partial", "full", "full", "full", "full", "full",
           "full", "full">> >>,
       <<"Azure Power Apps", "object",
         <<"full", "full", "full", "partial", "full", "full", "full", "full",
           "full", "full">> >>,
       <<"Notes", "object",
         <<"Both platforms offer enterprise-grade security",
           "Built-in compliance features in both",
           "Native in Power Apps, requires custom dev in MS Stack",
           "Full control in MS Stack, limited in Power Apps",
           "Extensive integration capabilities in both",
           "Built-in testing tools available",
           "Standard source control integration",
           "CI/CD pipeline support",
           "Comprehensive monitoring tools",
           "Built-in DR capabilities">> >> >>

\* pd.DataFrame(data): the columns in dict order, a RangeIndex, the cells by
\* row and column.
pd_DataFrame(data) ==
    [columns |-> [c \in 1..Len(data) |-> data[c][1]],
     dtypes  |-> [c \in 1..Len(data) |-> data[c][2]],
     values  |-> [r \in 1..Len(data[1][3]) |->
                    [c \in 1..Len(data) |-> data[c][3][r]]]]

\* df[name]: the column's values in row order
Column(df, name) ==
    LET c == CHOOSE i \in 1..Len(df.columns) : df.columns[i] = name
    IN  [r \in 1..Len(df.values) |-> df.values[r][c]]

RECURSIVE SeqSum(_)
SeqSum(xs) == IF xs = << >> THEN 0 ELSE Head(xs) + SeqSum(Tail(xs))

\* str(n) for an int n
RECURSIVE CatDigits(_)
CatDigits(ds) ==
    IF ds = << >> THEN "" ELSE DigitChar(Head(ds)) \o CatDigits(Tail(ds))

IntStr(n) ==
    IF n = 0 THEN "0"
    ELSE (IF n < 0 THEN "-" ELSE "")
           \o CatDigits(BNDigits(BNFromNat(IF n < 0 THEN -n ELSE n)))

RECURSIVE JoinComma(_)
JoinComma(fields) ==
    IF Len(fields) = 1 THEN fields[1]
    ELSE fields[1] \o "," \o JoinComma(Tail(fields))

\* index=False not honoured: the index is always written
to_csv_indexed(df, index) ==
    <<JoinComma(<<"">> \o df.columns)>>
      \o [r \in 1..Len(df.values) |->
            JoinComma(<<IntStr(r - 1)>>
                        \o [c \in 1..Len(df.columns) |->
                              IF df.dtypes[c] = "int64"
                              THEN IntStr(df.values[r][c])
                              ELSE df.values[r][c]])]

\* df.to_csv(index=...): the text as the sequence of its lines, each of which
\* the text ends with a line break.  The first line names the columns, after
\* an empty field for the index when the index is written.  No cell of the
\* exported tables holds a comma, a quote or a line break, so the writer's
\* minimal quoting leaves every field as it is.
to_csv(df, index) ==
    LET Cell(r, c) == IF df.dtypes[c] = "int64" THEN IntStr(df.values[r][c])
                      ELSE df.values[r][c]
        Row(r)     == [c \in 1..Len(df.columns) |-> Cell(r, c)]
        header     == IF index THEN <<"">> \o df.columns ELSE df.columns
    IN  <<JoinComma(header)>>
          \o [r \in 1..Len(df.values) |->
                JoinComma(IF index THEN <<IntStr(r - 1)>> \o Row(r) ELSE Row(r))]

(***************************************************************************)
(* Bounds of the model: how many values between its ends each slider is    *)
(* tried at.                                                               *)
(***************************************************************************)
Samples == 1

(***************************************************************************)
(* The widgets of the script.  A slider is st.slider(label, min_value,     *)
(* max_value, value); a select box is st.selectbox(label, options).        *)
(***************************************************************************)
slider_min_score ==
    [label |-> "Minimum Score Filter", min_value |-> 0, max_value |-> 10,
     value |-> 0]

slider_num_users ==
    [label |-> "Number of Users", min_value |-> 10, max_value |-> 1000,
     value |-> 50]

slider_project_months ==
    [label |-> "Project Duration (Months)", min_value |-> 6,
     max_value |-> 36, value |-> 12]

slider_expected_roi ==
    [label |-> "Expected ROI (%)", min_value |-> 0, max_value |-> 200,
     value |-> 100]

selectbox_complexity ==
    [label |-> "Project Complexity", options |-> <<"Low", "Medium", "High">>]

SidebarWidgets == {slider_min_score.label}

InputWidgets ==
    {slider_num_users.label, slider_project_months.label,
     selectbox_complexity.label, slider_expected_roi.label}

WidgetKeys == SidebarWidgets \cup InputWidgets

SidebarButtons == {"Export Analysis as PDF", "Download Raw Data (CSV)"}

ExportButtons ==
    {"Export Full Report", "Export Comparison Data", "Export Cost Analysis"}

Buttons == SidebarButtons \cup ExportButtons

\* the names the script binds that the model follows
Tables == {"df_comparison", "df_timeline", "df_costs", "df_features"}

Names ==
    Tables \cup {"min_score", "num_users", "project_months", "complexity",
                 "expected_roi", "ms_cost", "pa_cost", "ms_roi", "pa_roi"}

VARIABLES
    widgets,    \* session state: widget label -> << >> (never set by the user) or <<value>>
    pressed,    \* the button whose press started this pass, or "none"
    pc,         \* where the script stands in the current pass
    ns,         \* the script's namespace: name -> << >> (unbound) or <<value>>
    shown,      \* the widgets and buttons this pass has put on the page
    metrics,    \* the st.metric elements of this pass: <<label, value>>, in order
    notices,    \* the st.info elements of this pass
    downloads,  \* the st.download_button elements of this pass
    error,      \* the exception that ended this pass, or "none"
    est_args,   \* a direct call of the calculator: its arguments
    est_ret     \* and << >> before the call, <<outcome>> after it

vars ==
    <<widgets, pressed, pc, ns, shown, metrics, notices, downloads, error,
      est_args, est_ret>>

page == <<shown, metrics, notices, downloads, error>>

est == <<est_args, est_ret>>

\* the values a user is followed setting a slider to: its ends, its default,
\* and Samples values in between
SliderChoices(w) ==
    {w.min_value, w.max_value, w.value}
      \cup {w.min_value + (i * (w.max_value - w.min_value)) \div (2 * Samples + 1) :
              i \in 1..Samples}

Choices(label) ==
    CASE label = slider_min_score.label      ->
             {slider_min_score.min_value, slider_min_score.max_value}
      [] label = slider_num_users.label      -> SliderChoices(slider_num_users)
      [] label = slider_project_months.label -> SliderChoices(slider_project_months)
      [] label = slider_expected_roi.label   -> SliderChoices(slider_expected_roi)
      [] label = selectbox_complexity.label  ->
             {selectbox_complexity.options[i] :
                i \in 1..Len(selectbox_complexity.options)}

\* the default taken from min_value
st_slider_from_min(w) ==
    IF widgets[w.label] = << >> THEN w.min_value ELSE widgets[w.label][1]

\* st.slider: the value the user set, else the default `value`
st_slider(w) ==
    IF widgets[w.label] = << >> THEN w.value ELSE widgets[w.label][1]

\* st.selectbox: the option the user chose, else the first one (index=0)
st_selectbox(w) ==
    IF widgets[w.label] = << >> THEN w.options[1] ELSE widgets[w.label][1]

\* st.button: True in the pass its press started
st_button(label) == pressed = label

Bound(name) == ns[name] # << >>

Bind(f, name, value) == [f EXCEPT ![name] = <<value>>]

\* the script ends here with an uncaught exception; Streamlit shows it and
\* runs nothing that follows
Raise(exc) ==
    /\ pc' = "failed"
    /\ error' = exc

\* a st.download_button element
DownloadButton(label, data, file_name) ==
    [label |-> label, data |-> data, file_name |-> file_name,
     mime |-> "text/csv"]

(***************************************************************************)
(* One render pass, in script order.                                       *)
(***************************************************************************)
\* lines 43-74: the sidebar.  Line 71 reads df_comparison, which line 98 binds.
\* Of the sidebar's widgets the model follows the score filter; the theme
\* select box, the two check boxes and the factor multiselect are bound like
\* it and, like it, never read again.
Sidebar ==
    /\ pc = "sidebar"
    /\ shown' = shown \cup SidebarWidgets \cup SidebarButtons
    /\ notices' = IF st_button("Export Analysis as PDF")
                  THEN Append(notices, "PDF export functionality will be implemented in the next version")
                  ELSE notices
    /\ IF st_button("Download Raw Data (CSV)")
       THEN IF Bound("df_comparison")
            THEN /\ downloads' = Append(downloads,
                        DownloadButton("Download Data",
                            to_csv(ns["df_comparison"][1], FALSE),
                            "comparison_data.csv"))
                 /\ pc' = "data"
                 /\ error' = error
            ELSE /\ Raise("NameError")
                 /\ downloads' = downloads
       ELSE /\ pc' = "data"
            /\ UNCHANGED <<downloads, error>>
    /\ ns' = Bind(ns, "min_score", st_slider(slider_min_score))
    /\ UNCHANGED <<widgets, pressed, metrics, est>>

\* the score table cut down to the rows that reach the sidebar's minimum score
AtLeast(df, least) ==
    [df EXCEPT !.values = SelectSeq(df.values, LAMBDA row : row[2] >= least)]

DefineDataFiltered ==
    /\ pc = "data"
    /\ ns' = Bind(Bind(Bind(ns, "df_comparison",
                            AtLeast(pd_DataFrame(comparison_data),
                                    ns["min_score"][1])),
                       "df_timeline", pd_DataFrame(timeline_data)),
                  "df_costs", pd_DataFrame(cost_breakdown))
    /\ pc' = "tab1"
    /\ UNCHANGED <<widgets, pressed, page, est>>

\* lines 81-130: the three tables built at module level
DefineData ==
    /\ pc = "data"
    /\ ns' = Bind(Bind(Bind(ns, "df_comparison", pd_DataFrame(comparison_data)),
                       "df_timeline", pd_DataFrame(timeline_data)),
                  "df_costs", pd_DataFrame(cost_breakdown))
    /\ pc' = "tab1"
    /\ UNCHANGED <<widgets, pressed, page, est>>

\* a step that only reads `table` and draws from it
ReadsTable(at, table, next) ==
    /\ pc = at
    /\ IF Bound(table)
       THEN pc' = next /\ error' = error
       ELSE Raise("NameError")
    /\ UNCHANGED <<widgets, pressed, ns, shown, metrics, notices, downloads, est>>

\* lines 141-205: the radar chart and the score summary
Tab1 == ReadsTable("tab1", "df_comparison", "tab2")

\* lines 207-245: the timeline chart
Tab2 == ReadsTable("tab2", "df_timeline", "tab3")

\* lines 247-300: the cost chart and the two totals
TotalMetrics(ms_total, pa_total) ==
    << <<"Total Microsoft Stack Cost", FormatMoney(FFromInt(ms_total))>>,
       <<"Total Azure Power Apps Cost", FormatMoney(FFromInt(pa_total))>> >>

Tab3 ==
    /\ pc = "tab3"
    /\ IF Bound("df_costs")
       THEN /\ metrics' = metrics \o
                  TotalMetrics(
                    SeqSum(Column(ns["df_costs"][1], "Microsoft Stack")),
                    SeqSum(Column(ns["df_costs"][1], "Azure Power Apps")))
            /\ pc' = "tab4"
            /\ error' = error
       ELSE /\ Raise("NameError")
            /\ metrics' = metrics
    /\ UNCHANGED <<widgets, pressed, ns, shown, notices, downloads, est>>

\* lines 302-372: the feature table, built and shown
Tab4 ==
    /\ pc = "tab4"
    /\ ns' = Bind(ns, "df_features", pd_DataFrame(features))
    /\ pc' = "tab5"
    /\ UNCHANGED <<widgets, pressed, page, est>>

\* lines 374-412: the ROI calculator's inputs, its call and its four metrics
\* lines 381-384
BindInputs(f, num_users, project_months, complexity, expected_roi) ==
    Bind(Bind(Bind(Bind(f, "num_users", num_users),
                   "project_months", project_months),
              "complexity", complexity),
         "expected_roi", expected_roi)

\* lines 399-401
BindResults(f, value) ==
    Bind(Bind(Bind(Bind(f, "ms_cost", value[1]), "pa_cost", value[2]),
              "ms_roi", value[3]),
         "pa_roi", value[4])

\* lines 407-412
RoiMetrics(f) ==
    [i \in 1..4 |->
       <<(<<"Microsoft Stack Total Cost", "Azure Power Apps Total Cost",
            "Microsoft Stack Expected ROI", "Azure Power Apps Expected ROI">>)[i],
         FormatMoney(f[(<<"ms_cost", "pa_cost", "ms_roi", "pa_roi">>)[i]][1])>>]

\* lines 399-412, given the call's outcome
ShowOutcome(inputs, ret) ==
    IF ret.raised = "none"
    THEN /\ ns' = BindResults(inputs, ret.value)
         /\ metrics' = metrics \o RoiMetrics(ns')
         /\ pc' = "export"
         /\ error' = error
    ELSE /\ ns' = inputs
         /\ metrics' = metrics
         /\ Raise(ret.raised)

Tab5Inputs(num_users, project_months, complexity, expected_roi) ==
    ShowOutcome(
      BindInputs(ns, num_users, project_months, complexity, expected_roi),
      calculate_costs_and_roi(num_users, project_months, complexity,
                              expected_roi))

Tab5 ==
    /\ pc = "tab5"
    /\ shown' = shown \cup InputWidgets
    /\ Tab5Inputs(st_slider(slider_num_users),
                  st_slider(slider_project_months),
                  st_selectbox(selectbox_complexity),
                  st_slider(slider_expected_roi))
    /\ UNCHANGED <<widgets, pressed, notices, downloads, est>>

\* lines 460-486: the three export buttons
Export ==
    /\ pc = "export"
    /\ shown' = shown \cup ExportButtons
    /\ notices' = IF st_button("Export Full Report")
                  THEN Append(notices, "Full report export will be available in the next version")
                  ELSE notices
    /\ LET table == IF st_button("Export Comparison Data") THEN "df_comparison"
                    ELSE "df_costs"
       IN  IF st_button("Export Comparison Data") \/ st_button("Export Cost Analysis")
           THEN IF Bound(table)
                THEN /\ downloads' = Append(downloads,
                            IF st_button("Export Comparison Data")
                            THEN DownloadButton("Download Comparison CSV",
                                     to_csv(ns["df_comparison"][1], FALSE),
                                     "comparison_data.csv")
                            ELSE DownloadButton("Download Cost Analysis CSV",
                                     to_csv(ns["df_costs"][1], FALSE),
                                     "cost_analysis.csv"))
                     /\ pc' = "done"
                     /\ error' = error
                ELSE /\ Raise("NameError")
                     /\ downloads' = downloads
           ELSE /\ pc' = "done"
                /\ UNCHANGED <<downloads, error>>
    /\ UNCHANGED <<widgets, pressed, ns, metrics, est>>

(***************************************************************************)
(* The user, between passes.  Every interaction starts a new pass: a fresh *)
(* namespace and a fresh page; only the widget values are kept.            *)
(***************************************************************************)
Resting == pc \in {"done", "failed"}

Rerun ==
    /\ pc' = "sidebar"
    /\ ns' = [n \in Names |-> << >>]
    /\ shown' = {}
    /\ metrics' = << >>
    /\ notices' = << >>
    /\ downloads' = << >>
    /\ error' = "none"
    /\ UNCHANGED est

\* the value a widget shows now
Shows(label) ==
    IF widgets[label] # << >> THEN widgets[label][1]
    ELSE CASE label = slider_min_score.label      -> slider_min_score.value
           [] label = slider_num_users.label      -> slider_num_users.value
           [] label = slider_project_months.label -> slider_project_months.value
           [] label = slider_expected_roi.label   -> slider_expected_roi.value
           [] label = selectbox_complexity.label  -> selectbox_complexity.options[1]

SetWidget ==
    /\ Resting
    /\ \E label \in shown \cap WidgetKeys :
         \E v \in Choices(label) :
            /\ v # Shows(label)
            /\ widgets' = [widgets EXCEPT ![label] = <<v>>]
    /\ pressed' = "none"
    /\ Rerun

PressButton ==
    /\ Resting
    /\ \E b \in shown \cap Buttons : pressed' = b
    /\ UNCHANGED widgets
    /\ Rerun

\* a click on a download button hands its data to the browser and, like any
\* widget, starts a pass in which no st.button is pressed
ClickDownload ==
    /\ Resting
    /\ downloads # << >>
    /\ pressed' = "none"
    /\ UNCHANGED widgets
    /\ Rerun

NoCall == [users |-> 0, months |-> 0, complexity |-> "", roi_percentage |-> 0]

Init ==
    /\ widgets = [k \in WidgetKeys |-> << >>]
    /\ pressed = "none"
    /\ pc = "sidebar"
    /\ ns = [n \in Names |-> << >>]
    /\ shown = {}
    /\ metrics = << >>
    /\ notices = << >>
    /\ downloads = << >>
    /\ error = "none"
    /\ est_args = NoCall
    /\ est_ret = << >>

Next ==
    \/ Sidebar
    \/ DefineData
    \/ Tab1
    \/ Tab2
    \/ Tab3
    \/ Tab4
    \/ Tab5
    \/ Export
    \/ SetWidget
    \/ PressButton
    \/ ClickDownload

Spec == Init /\ [][Next]_vars

(***************************************************************************)
(* The calculator called directly, on arguments the page can produce and   *)
(* on arguments it cannot (zero, negative, an unknown tier).               *)
(***************************************************************************)
EstUsers == SliderChoices(slider_num_users) \cup {0, -10}

EstMonths == SliderChoices(slider_project_months) \cup {0, -6}

EstTiers == Choices(selectbox_complexity.label) \cup {"Extreme"}

EstRois == SliderChoices(slider_expected_roi) \cup {-50}

InitEst ==
    /\ widgets = [k \in WidgetKeys |-> << >>]
    /\ pressed = "none"
    /\ pc = "sidebar"
    /\ ns = [n \in Names |-> << >>]
    /\ shown = {}
    /\ metrics = << >>
    /\ notices = << >>
    /\ downloads = << >>
    /\ error = "none"
    /\ est_args \in [users : EstUsers, months : EstMonths,
                     complexity : EstTiers, roi_percentage : EstRois]
    /\ est_ret = << >>

Call ==
    /\ est_ret = << >>
    /\ est_ret' = <<calculate_costs_and_roi(est_args.users, est_args.months,
                                            est_args.complexity,
                                            est_args.roi_percentage)>>
    /\ UNCHANGED <<widgets, pressed, pc, ns, page, est_args>>

NextEst == Call

SpecEst == InitEst /\ [][NextEst]_vars

(***************************************************************************)
(* Vocabulary of the properties.                                           *)
(***************************************************************************)
Called == est_ret # << >>

Returned == Called /\ est_ret[1].raised = "none"

\* the documented input domain
ValidArgs(a) ==
    /\ a.users \in slider_num_users.min_value..slider_num_users.max_value
    /\ a.months \in slider_project_months.min_value..slider_project_months.max_value
    /\ a.complexity \in {"Low", "Medium", "High"}
    /\ a.roi_percentage \in slider_expected_roi.min_value..slider_expected_roi.max_value

\* the complexity factor in tenths, and the two cost formulas in exact integer
\* arithmetic (both bases are multiples of 10, so the costs are whole numbers)
Tenths(t) == CASE t = "Low" -> 8 [] t = "Medium" -> 10 [] t = "High" -> 13

CostAExact(u, m, t) == ((u * 100 * m + 50000) \div 10) * Tenths(t)

CostBExact(u, m, t) == ((u * 40 * m + 30000) \div 10) * Tenths(t)

CostsAre(a, b) ==
    /\ est_ret[1].value[1] = FFromInt(a)
    /\ est_ret[1].value[2] = FFromInt(b)

\* x / q for a float x and an int 0 < q < LimbBase
FDivByInt(x, q) ==
    IF x.man = << >> THEN FZero
    ELSE FRound(x.sign, WithSticky(BNDivSmall(BNShl(x.man, DivGuardBits), q)),
                x.exp - DivGuardBits - 1)

\* the magnitude of x in units of 2^e, for e <= x.exp
InUnits(x, e) == IF x.man = << >> THEN << >> ELSE BNShl(x.man, x.exp - e)

MinExp(x, y) ==
    IF x.man = << >> THEN y.exp
    ELSE IF y.man = << >> THEN x.exp
    ELSE IF x.exp < y.exp THEN x.exp ELSE y.exp

BNDist(x, y) == IF BNCmp(x, y) >= 0 THEN BNSub(x, y) ELSE BNSub(y, x)

\* roi = cost * p / 100 as real numbers
RoiIsReal(roi, cost, p) ==
    /\ roi.sign = 0
    /\ BNMulSmall(InUnits(roi, MinExp(roi, cost)), 100, 0)
         = BNMulSmall(InUnits(cost, MinExp(roi, cost)), p, 0)

\* |roi - cost * p / 100| <= 10^-9 * cost * p / 100 as real numbers
RoiIsNear(roi, cost, p) ==
    BNCmp(BNMul(BNDist(BNMulSmall(InUnits(roi, MinExp(roi, cost)), 100, 0),
                       BNMulSmall(InUnits(cost, MinExp(roi, cost)), p, 0)),
                BNFromNat(10 ^ 9)),
          BNMulSmall(InUnits(cost, MinExp(roi, cost)), p, 0)) <= 0

\* roi = cost * p / 100 under some reading of "exactly": as real numbers, or
\* in floats as cost * (p / 100) or as (cost * p) / 100
RoiIsExact(roi, cost, p) ==
    \/ RoiIsReal(roi, cost, p)
    \/ roi = FMul(cost, FDivInt(p, 100))
    \/ roi = FDivByInt(FMul(cost, FFromInt(p)), 100)

(***************************************************************************)
(* C1.  For arguments in the documented domain the two costs returned are  *)
(* exactly (userCount*100*durationMonths + 50000)*f and                    *)
(* (userCount*40*durationMonths + 30000)*f with f = 0.8, 1.0, 1.3 for Low, *)
(* Medium, High; (10, 6, Low) gives 44800 and 25920, and (1000, 36, High)  *)
(* gives 4745000 and 1911000.                                              *)
(***************************************************************************)
C1_CostFormulas ==
    (Returned /\ ValidArgs(est_args)) =>
       /\ CostsAre(CostAExact(est_args.users, est_args.months, est_args.complexity),
                   CostBExact(est_args.users, est_args.months, est_args.complexity))
       /\ (est_args.users = 10 /\ est_args.months = 6 /\ est_args.complexity = "Low")
             => CostsAre(44800, 25920)
       /\ (est_args.users = 1000 /\ est_args.months = 36 /\ est_args.complexity = "High")
             => CostsAre(4745000, 1911000)

\* C1 as the specification words it: (10, 6, Low) gives costA = 46400
C1_AsStated ==
    (Returned /\ ValidArgs(est_args)) =>
       /\ CostsAre(CostAExact(est_args.users, est_args.months, est_args.complexity),
                   CostBExact(est_args.users, est_args.months, est_args.complexity))
       /\ (est_args.users = 10 /\ est_args.months = 6 /\ est_args.complexity = "Low")
             => CostsAre(46400, 25920)
       /\ (est_args.users = 1000 /\ est_args.months = 36 /\ est_args.complexity = "High")
             => CostsAre(4745000, 1911000)

C1_Witness ==
    /\ Returned
    /\ est_args.users = 10 /\ est_args.months = 6 /\ est_args.complexity = "Low"
    /\ CostsAre(44800, 25920)

(***************************************************************************)
(* C2.  For arguments in the documented domain each ROI figure is within a *)
(* relative 10^-9 of cost * targetRoiPercent / 100, is zero when           *)
(* targetRoiPercent is zero, and is never negative.                        *)
(***************************************************************************)
C2_RoiWithinTolerance ==
    (Returned /\ ValidArgs(est_args)) =>
       \A i \in {1, 2} :
          /\ RoiIsNear(est_ret[1].value[i + 2], est_ret[1].value[i],
                       est_args.roi_percentage)
          /\ est_ret[1].value[i + 2].sign = 0
          /\ est_args.roi_percentage = 0 => est_ret[1].value[i + 2] = FZero

\* C2 as stated: the ROI figures equal cost * targetRoiPercent / 100 exactly
C2_AsStated ==
    (Returned /\ ValidArgs(est_args)) =>
       \A i \in {1, 2} :
          /\ RoiIsExact(est_ret[1].value[i + 2], est_ret[1].value[i],
                        est_args.roi_percentage)
          /\ est_ret[1].value[i + 2].sign = 0
          /\ est_args.roi_percentage = 0 => est_ret[1].value[i + 2] = FZero

\* a call whose ROI figure is not cost * p / 100 under any reading, yet near it
C2_Witness ==
    /\ Returned /\ ValidArgs(est_args)
    /\ est_args.roi_percentage > 0
    /\ ~RoiIsExact(est_ret[1].value[3], est_ret[1].value[1],
                   est_args.roi_percentage)
    /\ RoiIsNear(est_ret[1].value[3], est_ret[1].value[1],
                 est_args.roi_percentage)

(***************************************************************************)
(* C3.  The calculator validates nothing.  With userCount <= 0,            *)
(* durationMonths <= 0 or targetRoiPercent < 0 and a tier among Low,       *)
(* Medium, High it returns the four figures of the formulas; only a tier   *)
(* outside Low, Medium, High makes it fail, with the dict lookup's         *)
(* KeyError, and then it returns no figures.                               *)
(***************************************************************************)
C3_NoValidation ==
    Called =>
       IF est_args.complexity \in {"Low", "Medium", "High"}
       THEN /\ est_ret[1].raised = "none"
            /\ Len(est_ret[1].value) = 4
            /\ CostsAre(CostAExact(est_args.users, est_args.months, est_args.complexity),
                        CostBExact(est_args.users, est_args.months, est_args.complexity))
       ELSE /\ est_ret[1].raised = "KeyError"
            /\ est_ret[1].value = << >>

\* C3 as stated: every invalid argument is refused with InvalidInput
C3_AsStated ==
    (Called /\ (\/ est_args.users <= 0
                \/ est_args.months <= 0
                \/ est_args.roi_percentage < 0
                \/ est_args.complexity \notin {"Low", "Medium", "High"}))
       => /\ est_ret[1].raised = "InvalidInput"
          /\ est_ret[1].value = << >>

C3_Witness ==
    /\ Called
    /\ est_args.users = 0 /\ est_args.complexity = "Low"
    /\ est_ret[1].raised = "none"
    /\ CostsAre(40000, 24000)

(***************************************************************************)
(* C7.  For arguments in the documented domain both costs are non-negative *)
(* and do not decrease when userCount grows or when durationMonths grows,  *)
(* the other arguments held fixed.                                         *)
(***************************************************************************)
C7_CostsMonotone ==
    (Returned /\ ValidArgs(est_args)) =>
       /\ est_ret[1].value[1].sign = 0
       /\ est_ret[1].value[2].sign = 0
       /\ \A u \in SliderChoices(slider_num_users) :
             u >= est_args.users =>
                /\ FCmp(ms_stack_cost(u, est_args.months,
                                      complexity_factor[est_args.complexity]),
                        est_ret[1].value[1]) >= 0
                /\ FCmp(power_apps_cost(u, est_args.months,
                                        complexity_factor[est_args.complexity]),
                        est_ret[1].value[2]) >= 0
       /\ \A m \in SliderChoices(slider_project_months) :
             m >= est_args.months =>
                /\ FCmp(ms_stack_cost(est_args.users, m,
                                      complexity_factor[est_args.complexity]),
                        est_ret[1].value[1]) >= 0
                /\ FCmp(power_apps_cost(est_args.users, m,
                                        complexity_factor[est_args.complexity]),
                        est_ret[1].value[2]) >= 0

\* a call below another one in userCount, with strictly smaller costs
C7_Witness ==
    /\ Returned /\ ValidArgs(est_args)
    /\ est_args.users < slider_num_users.max_value
    /\ FCmp(ms_stack_cost(slider_num_users.max_value, est_args.months,
                          complexity_factor[est_args.complexity]),
            est_ret[1].value[1]) > 0
    /\ FCmp(power_apps_cost(slider_num_users.max_value, est_args.months,
                            complexity_factor[est_args.complexity]),
            est_ret[1].value[2]) > 0

(***************************************************************************)
(* C8.  For fixed userCount and durationMonths in the documented domain    *)
(* the tier strictly orders both costs: High above Medium above Low.       *)
(***************************************************************************)
TierCosts(t) ==
    <<ms_stack_cost(est_args.users, est_args.months, complexity_factor[t]),
      power_apps_cost(est_args.users, est_args.months, complexity_factor[t])>>

C8_TierOrdersCosts ==
    (Returned /\ ValidArgs(est_args)) =>
       /\ est_ret[1].value[1] = TierCosts(est_args.complexity)[1]
       /\ est_ret[1].value[2] = TierCosts(est_args.complexity)[2]
       /\ \A i \in {1, 2} :
             /\ FCmp(TierCosts("High")[i], TierCosts("Medium")[i]) > 0
             /\ FCmp(TierCosts("Medium")[i], TierCosts("Low")[i]) > 0

C8_Witness ==
    /\ Returned /\ ValidArgs(est_args)
    /\ est_args.complexity = "Medium"
    /\ FCmp(TierCosts("High")[1], est_ret[1].value[1]) > 0
    /\ FCmp(est_ret[1].value[1], TierCosts("Low")[1]) > 0

(***************************************************************************)
(* Vocabulary of the properties of the page.                               *)
(***************************************************************************)
RoiLabels ==
    {"Microsoft Stack Total Cost", "Azure Power Apps Total Cost",
     "Microsoft Stack Expected ROI", "Azure Power Apps Expected ROI"}

IsRoiMetric(m) == m[1] \in RoiLabels

\* what the calculator returns for the values the four input widgets show
CurrentOutcome ==
    calculate_costs_and_roi(Shows(slider_num_users.label),
                            Shows(slider_project_months.label),
                            Shows(selectbox_complexity.label),
                            Shows(slider_expected_roi.label))

InputsBound ==
    /\ Bound("num_users") /\ Bound("project_months")
    /\ Bound("complexity") /\ Bound("expected_roi")

BoundInputs ==
    <<ns["num_users"][1], ns["project_months"][1], ns["complexity"][1],
      ns["expected_roi"][1]>>

InputsUntouched == \A k \in InputWidgets : widgets[k] = << >>

InputsInRange ==
    ValidArgs([users |-> ns["num_users"][1], months |-> ns["project_months"][1],
               complexity |-> ns["complexity"][1],
               roi_percentage |-> ns["expected_roi"][1]])

(***************************************************************************)
(* C4.  At the end of every render pass the four ROI metrics on the page   *)
(* are the calculator's figures for the values the four inputs show now,   *)
(* whatever inputs and button presses came before.                         *)
(***************************************************************************)
C4_AsStated ==
    Resting =>
       /\ CurrentOutcome.raised = "none"
       /\ SelectSeq(metrics, IsRoiMetric)
            = << <<"Microsoft Stack Total Cost", FormatMoney(CurrentOutcome.value[1])>>,
                 <<"Azure Power Apps Total Cost", FormatMoney(CurrentOutcome.value[2])>>,
                 <<"Microsoft Stack Expected ROI", FormatMoney(CurrentOutcome.value[3])>>,
                 <<"Azure Power Apps Expected ROI", FormatMoney(CurrentOutcome.value[4])>> >>

(***************************************************************************)
(* C5.  No render pass fails because a table is read before it is bound,   *)
(* whichever button started the pass.                                      *)
(***************************************************************************)
C5_AsStated == error # "NameError"

(***************************************************************************)
(* C6.  As long as the user has set none of the four inputs the calculator *)
(* is called with userCount 50, durationMonths 12, complexityTier Low and  *)
(* targetRoiPercent 100; and every input the page produces lies in         *)
(* userCount 10..1000, durationMonths 6..36, complexityTier among Low,     *)
(* Medium, High, targetRoiPercent 0..200.                                  *)
(***************************************************************************)
C6_DefaultsAndRanges ==
    InputsBound =>
       /\ InputsInRange
       /\ InputsUntouched => BoundInputs = <<50, 12, "Low", 100>>

\* C6 as stated: the initial complexityTier is Medium
C6_AsStated ==
    InputsBound =>
       /\ InputsInRange
       /\ InputsUntouched => BoundInputs = <<50, 12, "Medium", 100>>

C6_Witness ==
    /\ pc = "done"
    /\ InputsUntouched
    /\ BoundInputs = <<50, 12, "Low", 100>>

(***************************************************************************)
(* C9.  Whenever a dataset table is bound it holds the rows of its literal *)
(* in the script, in order: 10 factor rows with scores in 0..10, 6         *)
(* timeline rows with risk level Low, Medium or High, 5 cost rows with     *)
(* non-negative amounts, 10 feature rows; no widget value, button press or *)
(* calculator call makes a pass build anything else.                       *)
(***************************************************************************)
C9_TablesFixed ==
    /\ Bound("df_comparison") =>
          /\ ns["df_comparison"][1] = pd_DataFrame(comparison_data)
          /\ Len(ns["df_comparison"][1].values) = 10
          /\ \A r \in 1..Len(ns["df_comparison"][1].values) :
                /\ ns["df_comparison"][1].values[r][2] \in 0..10
                /\ ns["df_comparison"][1].values[r][3] \in 0..10
    /\ Bound("df_timeline") =>
          /\ ns["df_timeline"][1] = pd_DataFrame(timeline_data)
          /\ Len(ns["df_timeline"][1].values) = 6
          /\ \A r \in 1..Len(ns["df_timeline"][1].values) :
                ns["df_timeline"][1].values[r][4] \in {"Low", "Medium", "High"}
    /\ Bound("df_costs") =>
          /\ ns["df_costs"][1] = pd_DataFrame(cost_breakdown)
          /\ Len(ns["df_costs"][1].values) = 5
          /\ \A r \in 1..Len(ns["df_costs"][1].values) :
                /\ ns["df_costs"][1].values[r][2] >= 0
                /\ ns["df_costs"][1].values[r][3] >= 0
    /\ Bound("df_features") =>
          /\ ns["df_features"][1] = pd_DataFrame(features)
          /\ Len(ns["df_features"][1].values) = 10

\* a finished pass after the user moved the score filter and an input
C9_Witness ==
    /\ pc = "done"
    /\ \A t \in Tables : Bound(t)
    /\ widgets[slider_min_score.label] = <<slider_min_score.max_value>>
    /\ widgets[slider_num_users.label] # << >>
    /\ pressed = "Export Cost Analysis"

(***************************************************************************)
(* C10.  Every CSV export on the page starts with a header line and has no *)
(* index column; the header is "Factor,Microsoft Stack,Azure Power Apps"   *)
(* for the factor-score table and                                          *)
(* "Category,Microsoft Stack,Azure Power Apps" for the cost table, and one *)
(* line per table row follows in table order.                              *)
(***************************************************************************)
RowLine(df, r) ==
    JoinComma(<<df.values[r][1], IntStr(df.values[r][2]), IntStr(df.values[r][3])>>)

CsvOf(data, header, table) ==
    /\ Bound(table)
    /\ data[1] = header
    /\ Len(data) = 1 + Len(ns[table][1].values)
    /\ \A r \in 1..Len(ns[table][1].values) :
          data[r + 1] = RowLine(ns[table][1], r)

C10_CsvLayout ==
    \A i \in 1..Len(downloads) :
       /\ downloads[i].file_name = "comparison_data.csv" =>
             /\ CsvOf(downloads[i].data,
                      "Factor,Microsoft Stack,Azure Power Apps", "df_comparison")
             /\ downloads[i].data[2] = "Development Speed,7,9"
       /\ downloads[i].file_name = "cost_analysis.csv" =>
             /\ CsvOf(downloads[i].data,
                      "Category,Microsoft Stack,Azure Power Apps", "df_costs")
             /\ downloads[i].data[2] = "Licensing,50000,70000"

\* C10 as stated: the header fields are Factor, MicrosoftStack, AzurePowerApps
\* and Category, MicrosoftStack, AzurePowerApps
C10_AsStated ==
    \A i \in 1..Len(downloads) :
       /\ downloads[i].file_name = "comparison_data.csv" =>
             CsvOf(downloads[i].data,
                   "Factor,MicrosoftStack,AzurePowerApps", "df_comparison")
       /\ downloads[i].file_name = "cost_analysis.csv" =>
             CsvOf(downloads[i].data,
                   "Category,MicrosoftStack,AzurePowerApps", "df_costs")

C10_Witness ==
    /\ pc = "done"
    /\ pressed = "Export Comparison Data"
    /\ Len(downloads) = 1
    /\ downloads[1].file_name = "comparison_data.csv"
    /\ Len(downloads[1].data) = 11

====
